---- MODULE Spec2Model ----
(***************************************************************************)
(* Session-bound token rotation of django-quiz-server (authorization app). *)
(*                                                                         *)
(* The Session Store is the Django cache (redis_utils.py); every cache     *)
(* get/set/delete is one atomic step, so request handlers interleave at    *)
(* the granularity of store calls.  Token verification is the signing      *)
(* capability's "signature + expiry" check (views.py:142); the optional    *)
(* token_blacklist application keeps its own records, which no code of     *)
(* the repository reads: a blacklist() call either works or raises.        *)
(* Time is counted in ticks, TicksPerSecond of them to a second, because   *)
(* the code truncates expiries and TTLs to whole seconds.                  *)
(*                                                                         *)
(* What a handler answers at its first checks is a function of the request *)
(* and of the store (the ...Outcome operators).  Every answer is held in   *)
(* resp until the caller has received it; the answer of a handler that     *)
(* went on to the jti comparison or to the revocation is held together     *)
(* with the route and the token it served.                                 *)
(***************************************************************************)
EXTENDS Integers, FiniteSets, Sequences, TLC

(* ------------------------------ bounds --------------------------------- *)
MaxSessions == 2
MaxJti == 3
MaxTime == 4
TicksPerSecond == 2
RefreshLifetime == 2
AccessLifetime == 1
NumHandlers == 2
MaxPathLen == 3
ShortLifetime == 1

Procs == 1..NumHandlers
Users == {"alice", "root"}
Sids == 1..MaxSessions

VARIABLES
    store,     \* cache: session_id -> [user_id, refresh_jti, scope, expire]
    tokens,    \* minted refresh tokens by jti, with their paired access token
    nextSid,   \* next fresh uuid4 session id
    nextJti,   \* next fresh token jti
    now,       \* clock, in ticks
    proc,      \* per request handler: position and locals
    revoked,   \* per session id: how its record left the store
    resp,      \* the response being returned to the caller, or NoResp
    authz,     \* the request put to ScopePermission and its decision, or NoAuthz
    REFRESH_TOKEN_LIFETIME  \* settings.SIMPLE_JWT: lifetime of a refresh token, seconds

vars == <<store, tokens, nextSid, nextJti, now, proc, revoked, resp, authz,
          REFRESH_TOKEN_LIFETIME>>

(* ------------------------------ values --------------------------------- *)
NoToken == [kind |-> "none", jti |-> 0]
BadToken == [kind |-> "garbage", jti |-> 0]
\* a signed, unexpired refresh token that carries no session_id claim
BareToken == [kind |-> "bare", jti |-> 0]
NoSess == [user_id |-> "", refresh_jti |-> 0, scope |-> "", expire |-> 0]
NoResp == [op |-> "none", route |-> "", tok |-> NoToken,
           status |-> 0, msg |-> "", cleared |-> FALSE, issued |-> 0]
NoAuthz == [path |-> <<>>, scope |-> "", allow |-> ""]
Idle == [pc |-> "idle", route |-> "", tok |-> NoToken, rt |-> NoToken, sid |-> 0,
         new |-> 0, sess |-> NoSess, ttl |-> 0]

\* an answer: HTTP status, message, whether both cookies are deleted, and the
\* jti of the token pair set as cookies (0: none)
Answer(status, msg, cleared, issued) ==
    [status |-> status, msg |-> msg, cleared |-> cleared, issued |-> issued]
\* not an answer: the handler goes on
Continue == Answer(0, "", FALSE, 0)

AuthRoutes == {"/api/user/", "/api/admin/"}
ApiRoutes == {"/api/user/", "/api/admin/", "/api/"}

Given == {n \in DOMAIN tokens : tokens[n].given}
\* what a caller can put into a cookie or a header
Creds == {NoToken, BadToken, BareToken} \cup
         {[kind |-> k, jti |-> n] : k \in {"refresh", "access"}, n \in Given}

\* core/models.py User.is_user
is_user(u) == u = "alice"

\* views.py:74   getattr(user, 'is_verified', True): User has no such field
is_verified(u) == TRUE

(* --------------------------- pure helpers ------------------------------ *)
\* authorization/utils.py scope_from_path
scope_from_path(path) ==
    IF path = "/api/admin/" THEN "admin"
    ELSE IF path = "/api/user/" THEN "user"
    ELSE "None"

\* views.py:77   "user" if "api/user" in request.path.lower() else "admin"
LoginScope(path) == IF path = "/api/user/" THEN "user" ELSE "admin"

\* token 'exp' claim: whole seconds, int(current_time + lifetime)
ExpClaim(t, lifetime) == (t + lifetime * TicksPerSecond) \div TicksPerSecond

\* a ttl that is the full refresh lifetime whatever time is left
Ttl_Lifetime(exp, t) == RefreshLifetime

\* redis_utils.py:16,37   max(int((expires_at - now).total_seconds()), 0)
Ttl(exp, t) ==
    IF exp * TicksPerSecond - t <= 0 THEN 0
    ELSE (exp * TicksPerSecond - t) \div TicksPerSecond

\* the 'exp' claim of a presented token
Exp(raw) == IF raw.kind = "refresh" THEN tokens[raw.jti].exp ELSE tokens[raw.jti].aexp

Unexpired(raw) == now < Exp(raw) * TicksPerSecond

\* RefreshToken(raw): signature, token_type == refresh, expiry
RefreshTokenOk(raw) == raw = BareToken \/ (raw.kind = "refresh" /\ Unexpired(raw))

\* UntypedToken(raw): signature and expiry, any token type
UntypedTokenOk(raw) ==
    raw = BareToken \/ (raw.kind \in {"refresh", "access"} /\ Unexpired(raw))

\* token.get('session_id') is not None
HasSessionId(raw) == raw # BareToken

Claim(raw, field) == tokens[raw.jti][field]

\* core/exception_handler.py: a DRF error response of 403 is sent as 401
custom_exception_handler(status) == IF status = 403 THEN 401 ELSE status

\* an exception DRF does not handle (a failed cache call) becomes a 500
StoreUnavailable == Answer(500, "Internal server error", FALSE, 0)

\* a denylist call whose failure is not swallowed: the handler does not go on
TryBlacklist_Fatal(works) == works

\* try: token.blacklist() / except Exception: pass -- whether the call works
\* (works) or raises, control continues
TryBlacklist(works) == TRUE

(* ---------------------------- Session Store ---------------------------- *)
Exists(sid) == sid \in DOMAIN store

\* redis_utils.py get_session
get_session(sid) == IF Exists(sid) THEN store[sid] ELSE NoSess

\* cache.set(key, value, timeout=ttl): a timeout of 0 expires the key at once
CacheSet(sid, value, ttl) ==
    IF ttl = 0 THEN [s \in DOMAIN store \ {sid} |-> store[s]]
    ELSE [s \in DOMAIN store \cup {sid} |->
            IF s = sid THEN [value EXCEPT !.expire = now + ttl * TicksPerSecond]
            ELSE store[s]]

\* a delete that leaves the key in place
CacheDelete_Kept(sid) == store

\* a delete that removes every session of the user whose session is deleted
CacheDelete_User(sid) ==
    [s \in {k \in DOMAIN store :
               k # sid /\ (Exists(sid) => store[k].user_id # store[sid].user_id)} |->
        store[s]]

\* cache.delete(key)
CacheDelete(sid) == [s \in DOMAIN store \ {sid} |-> store[s]]

\* a create_session that stores nothing
create_session_Skip(sid, uid, jti, exp, scope) == store

\* redis_utils.py create_session: the store after the call
create_session(sid, uid, jti, exp, scope) ==
    IF Ttl(exp, now) <= 0 THEN store
    ELSE CacheSet(sid, [user_id |-> uid, refresh_jti |-> jti, scope |-> scope,
                        expire |-> 0], Ttl(exp, now))

\* how the record of sid left the store, after a cache.delete by `cause`
Revoke(sid, cause) ==
    [s \in Sids |-> IF s = sid /\ Exists(sid) THEN cause ELSE revoked[s]]

Respond(op, route, tok, a) ==
    resp' = [op |-> op, route |-> route, tok |-> tok, status |-> a.status,
             msg |-> a.msg, cleared |-> a.cleared, issued |-> a.issued]

AllIdle == \A p \in Procs : proc[p].pc = "idle"

\* the handlers are interchangeable: a request is taken by the first free one
Free(p) ==
    /\ proc[p].pc = "idle"
    /\ \A q \in Procs : q < p => proc[q].pc # "idle"

\* a mint that writes the admin scope into every token
Mint_Admin(sid, uid, scope, parent) ==
    [sid |-> sid, uid |-> uid, scope |-> "admin",
     exp |-> ExpClaim(now, REFRESH_TOKEN_LIFETIME), aexp |-> ExpClaim(now, AccessLifetime),
     parent |-> parent, given |-> FALSE]

\* a minted refresh token together with the access token derived from it
Mint(sid, uid, scope, parent) ==
    [sid |-> sid, uid |-> uid, scope |-> scope,
     exp |-> ExpClaim(now, REFRESH_TOKEN_LIFETIME), aexp |-> ExpClaim(now, AccessLifetime),
     parent |-> parent, given |-> FALSE]

\* jtis still to be drawn by rotations that passed their scope check
Reserved == Cardinality({p \in Procs : proc[p].pc = "rotate_check"})

InitStore ==
    /\ store = [s \in {} |-> NoSess]
    /\ tokens = [n \in {} |-> NoSess]
    /\ nextSid = 1
    /\ nextJti = 1
    /\ now = 0
    /\ proc = [p \in Procs |-> Idle]
    /\ revoked = [s \in Sids |-> "no"]
    /\ resp = NoResp

Init ==
    /\ InitStore
    /\ authz = NoAuthz
    /\ REFRESH_TOKEN_LIFETIME = RefreshLifetime

\* a login without the is_user test of views.py:78-79
LoginOutcome_NoFlag(ident, pwok, route, up) ==
    IF ident = "" THEN Answer(400, "Provide email or username.", FALSE, 0)
    ELSE IF ident \notin Users THEN Answer(400, "Invalid username!", FALSE, 0)
    ELSE IF ~pwok THEN Answer(400, "Invalid password", FALSE, 0)
    ELSE IF Ttl(ExpClaim(now, REFRESH_TOKEN_LIFETIME), now) > 0 /\ ~up
         THEN StoreUnavailable
    ELSE Answer(200, "Successfully logged in!", FALSE, nextJti)

(* ------------------------------- login --------------------------------- *)
\* views.py LoginAPIView.post: its answer.  ident "" is a request with neither
\* email nor username, "nobody" one that names no account.
LoginOutcome(ident, pwok, route, up) ==
    IF ident = "" THEN Answer(400, "Provide email or username.", FALSE, 0)
    ELSE IF ident \notin Users THEN Answer(400, "Invalid username!", FALSE, 0)
    ELSE IF ~pwok THEN Answer(400, "Invalid password", FALSE, 0)
    ELSE IF ~is_verified(ident) THEN Answer(403, "Please verify your account first", FALSE, 0)
    ELSE IF is_user(ident) /\ LoginScope(route) = "admin"
         THEN Answer(custom_exception_handler(401), "Unauthorized", FALSE, 0)
    ELSE IF Ttl(ExpClaim(now, REFRESH_TOKEN_LIFETIME), now) > 0 /\ ~up
         THEN StoreUnavailable
    ELSE Answer(200, "Successfully logged in!", FALSE, nextJti)

Login(ident, pwok, route, up) ==
    LET a == LoginOutcome(ident, pwok, route, up)
        scope == LoginScope(route)
    IN  /\ resp = NoResp
        /\ IF a.status = 200
           THEN /\ nextSid <= MaxSessions
                /\ nextJti <= MaxJti
                /\ store' = create_session(nextSid, ident, nextJti,
                                           ExpClaim(now, REFRESH_TOKEN_LIFETIME), scope)
                /\ tokens' = [n \in DOMAIN tokens \cup {nextJti} |->
                                IF n = nextJti
                                THEN [Mint(nextSid, ident, scope, 0) EXCEPT !.given = TRUE]
                                ELSE tokens[n]]
                /\ nextSid' = nextSid + 1
                /\ nextJti' = nextJti + 1
                /\ Respond("login", route, NoToken, a)
           ELSE /\ Respond("login", "", NoToken, a)
                /\ UNCHANGED <<store, tokens, nextSid, nextJti>>
        /\ UNCHANGED <<now, proc, revoked>>
        /\ UNCHANGED <<authz, REFRESH_TOKEN_LIFETIME>>

\* the caller receives the response
Deliver ==
    /\ resp # NoResp
    /\ resp' = NoResp
    /\ UNCHANGED <<store, tokens, nextSid, nextJti, now, proc, revoked>>
    /\ UNCHANGED <<authz, REFRESH_TOKEN_LIFETIME>>

\* a clock under which the cache never drops a key
Tick_NoExpiry ==
    /\ AllIdle
    /\ resp = NoResp
    /\ now < MaxTime
    /\ now' = now + 1
    /\ UNCHANGED <<store, tokens, nextSid, nextJti, proc, revoked, resp, authz, REFRESH_TOKEN_LIFETIME>>

\* the clock advances between requests; the cache drops the keys whose
\* timeout has passed
Tick ==
    /\ AllIdle
    /\ resp = NoResp
    /\ now < MaxTime
    /\ now' = now + 1
    /\ store' = [s \in {k \in DOMAIN store : store[k].expire > now + 1} |-> store[s]]
    /\ revoked' = [s \in Sids |->
                     IF Exists(s) /\ store[s].expire <= now + 1 THEN "ttl" ELSE revoked[s]]
    /\ UNCHANGED <<tokens, nextSid, nextJti, proc, resp>>
    /\ UNCHANGED <<authz, REFRESH_TOKEN_LIFETIME>>

\* the handler p returns answer a and is free again
Return(p, op, a) ==
    /\ Respond(op, proc[p].route, proc[p].tok, a)
    /\ proc' = [proc EXCEPT ![p] = Idle]

(* ------------------------------- rotate -------------------------------- *)
\* rotate without the scope check of views.py:155
RotateBeginOutcome_NoScope(raw, route, up) ==
    IF raw = NoToken THEN Answer(401, "Refresh token not provided", FALSE, 0)
    ELSE IF ~RefreshTokenOk(raw)
         THEN Answer(401, "Invalid or expired refresh token", FALSE, 0)
    ELSE IF ~HasSessionId(raw)
         THEN Answer(401, "Malformed refresh token (no session)", FALSE, 0)
    ELSE IF ~up THEN StoreUnavailable
    ELSE IF ~Exists(Claim(raw, "sid"))
         THEN Answer(401, "Session revoked or expired", FALSE, 0)
    ELSE Continue

\* rotate that looks the session up before it verifies the token
RotateBeginOutcome_SessionFirst(raw, route, up) ==
    IF raw = NoToken THEN Answer(401, "Refresh token not provided", FALSE, 0)
    ELSE IF raw.kind = "refresh" /\ ~Exists(Claim(raw, "sid"))
         THEN Answer(401, "Session revoked or expired", FALSE, 0)
    ELSE IF ~RefreshTokenOk(raw)
         THEN Answer(401, "Invalid or expired refresh token", FALSE, 0)
    ELSE IF ~HasSessionId(raw)
         THEN Answer(401, "Malformed refresh token (no session)", FALSE, 0)
    ELSE IF ~up THEN StoreUnavailable
    ELSE IF scope_from_path(route) # "None"
            /\ get_session(Claim(raw, "sid")).scope # scope_from_path(route)
         THEN Answer(403, "Invalid scope for this endpoint", FALSE, 0)
    ELSE Continue

\* views.py:137-156: what rotate answers before its second lookup
RotateBeginOutcome(raw, route, up) ==
    IF raw = NoToken THEN Answer(401, "Refresh token not provided", FALSE, 0)
    ELSE IF ~RefreshTokenOk(raw)
         THEN Answer(401, "Invalid or expired refresh token", FALSE, 0)
    ELSE IF ~HasSessionId(raw)
         THEN Answer(401, "Malformed refresh token (no session)", FALSE, 0)
    ELSE IF ~up THEN StoreUnavailable
    ELSE IF ~Exists(Claim(raw, "sid"))
         THEN Answer(401, "Session revoked or expired", FALSE, 0)
    ELSE IF scope_from_path(route) # "None"
            /\ get_session(Claim(raw, "sid")).scope # scope_from_path(route)
         THEN Answer(403, "Invalid scope for this endpoint", FALSE, 0)
    ELSE Continue

\* a rotation is let in only if a fresh jti is left for the token it may mint
RotateBegin(p, raw, route, up) ==
    LET a == RotateBeginOutcome(raw, route, up)
        fresh == get_session(Claim(raw, "sid")).refresh_jti = raw.jti
    IN  /\ resp = NoResp
        /\ Free(p)
        /\ IF a = Continue
           THEN /\ fresh => nextJti + Reserved <= MaxJti
                /\ proc' = [proc EXCEPT ![p] =
                              [Idle EXCEPT !.pc = "rotate_check", !.route = route,
                                           !.tok = raw, !.sid = Claim(raw, "sid")]]
                /\ UNCHANGED resp
           ELSE /\ Respond("rotate", "", NoToken, a)
                /\ UNCHANGED proc
        /\ UNCHANGED <<store, tokens, nextSid, nextJti, now, revoked>>
        /\ UNCHANGED <<authz, REFRESH_TOKEN_LIFETIME>>

\* the comparison left out: every presented jti passes
JtiMatches_Any(presented, current) == TRUE

\* views.py:166  presented_jti != current_jti
JtiMatches(presented, current) == presented = current

\* views.py:158-187: second lookup, jti comparison, minting of the new token
RotateCheck(p, up) ==
    LET sid == proc[p].sid
        session == get_session(sid)
    IN  /\ resp = NoResp
        /\ proc[p].pc = "rotate_check"
        /\ IF ~up
           THEN /\ Return(p, "rotate", StoreUnavailable)
                /\ UNCHANGED <<tokens, nextJti>>
           ELSE IF ~Exists(sid)
           THEN /\ Return(p, "rotate", Answer(401, "Session revoked or expired", FALSE, 0))
                /\ UNCHANGED <<tokens, nextJti>>
           ELSE IF ~JtiMatches(proc[p].tok.jti, session.refresh_jti)
           THEN /\ proc' = [proc EXCEPT ![p].pc = "rotate_revoke"]
                /\ UNCHANGED <<tokens, nextJti, resp>>
           ELSE /\ nextJti <= MaxJti
                /\ tokens' = [n \in DOMAIN tokens \cup {nextJti} |->
                                IF n = nextJti
                                THEN Mint(sid, session.user_id,
                                          Claim(proc[p].tok, "scope"), proc[p].tok.jti)
                                ELSE tokens[n]]
                /\ nextJti' = nextJti + 1
                /\ proc' = [proc EXCEPT ![p].pc = "update_get", ![p].new = nextJti]
                /\ UNCHANGED resp
        /\ UNCHANGED <<store, nextSid, now, revoked>>
        /\ UNCHANGED <<authz, REFRESH_TOKEN_LIFETIME>>

\* views.py:166-174: replay detected, the session is revoked
RotateRevoke(p, up, bl) ==
    /\ resp = NoResp
    /\ proc[p].pc = "rotate_revoke"
    /\ IF ~up
       THEN /\ Return(p, "rotate", StoreUnavailable)
            /\ UNCHANGED <<store, revoked>>
       ELSE /\ store' = CacheDelete(proc[p].sid)
            /\ revoked' = Revoke(proc[p].sid, "replay")
            /\ TryBlacklist(bl)
            /\ Return(p, "rotate",
                      Answer(401, "Refresh token reuse detected. Session revoked.", FALSE, 0))
    /\ UNCHANGED <<tokens, nextSid, nextJti, now>>
    /\ UNCHANGED <<authz, REFRESH_TOKEN_LIFETIME>>

\* views.py:192-227: blacklist attempt, new access token, cookies, 200
RotateFinish(p, bl) ==
    /\ TryBlacklist(bl)
    /\ tokens' = [tokens EXCEPT ![proc[p].new].given = TRUE]
    /\ Return(p, "rotate", Answer(200, "Token rotated", FALSE, proc[p].new))

\* redis_utils.py:33-37 update_session_jti: read the record, compute the ttl
UpdateGet(p, up, bl) ==
    LET sid == proc[p].sid
    IN  /\ resp = NoResp
        /\ proc[p].pc = "update_get"
        /\ IF ~up
           THEN /\ Return(p, "rotate", StoreUnavailable)
                /\ UNCHANGED tokens
           ELSE IF ~Exists(sid)
           THEN RotateFinish(p, bl)
           ELSE /\ proc' = [proc EXCEPT ![p].pc = "update_set",
                                        ![p].sess = [store[sid] EXCEPT
                                                       !.refresh_jti = proc[p].new,
                                                       !.expire = 0],
                                        ![p].ttl = Ttl(tokens[proc[p].new].exp, now)]
                /\ UNCHANGED <<tokens, resp>>
        /\ UNCHANGED <<store, nextSid, nextJti, now, revoked>>
        /\ UNCHANGED <<authz, REFRESH_TOKEN_LIFETIME>>

\* a write that reaches the store although the call is reported as failed
UpdateSet_Half(p, up, bl) ==
    /\ resp = NoResp
    /\ proc[p].pc = "update_set"
    /\ store' = CacheSet(proc[p].sid, proc[p].sess, proc[p].ttl)
    /\ IF ~up
       THEN /\ Return(p, "rotate", StoreUnavailable)
            /\ UNCHANGED tokens
       ELSE RotateFinish(p, bl)
    /\ UNCHANGED <<nextSid, nextJti, now, revoked>>
    /\ UNCHANGED <<authz, REFRESH_TOKEN_LIFETIME>>

\* a write-back that loses the user_id of the record
UpdateSet_NoUser(p, up, bl) ==
    /\ resp = NoResp
    /\ proc[p].pc = "update_set"
    /\ store' = CacheSet(proc[p].sid, [proc[p].sess EXCEPT !.user_id = ""], proc[p].ttl)
    /\ RotateFinish(p, bl)
    /\ UNCHANGED <<nextSid, nextJti, now, revoked>>
    /\ UNCHANGED <<authz, REFRESH_TOKEN_LIFETIME>>

\* redis_utils.py:38-39 update_session_jti: write the record back; the view
\* does not look at the return value
UpdateSet(p, up, bl) ==
    /\ resp = NoResp
    /\ proc[p].pc = "update_set"
    /\ IF ~up
       THEN /\ Return(p, "rotate", StoreUnavailable)
            /\ UNCHANGED <<store, tokens>>
       ELSE /\ store' = CacheSet(proc[p].sid, proc[p].sess, proc[p].ttl)
            /\ RotateFinish(p, bl)
    /\ UNCHANGED <<nextSid, nextJti, now, revoked>>
    /\ UNCHANGED <<authz, REFRESH_TOKEN_LIFETIME>>

(* ------------------------------- logout -------------------------------- *)
\* views.py:244-274: the token whose session_id logout uses -- the refresh
\* cookie if it verifies, else the bearer header, else (only without a
\* header) the access cookie; NoToken if none resolves
LogoutCredential(rt, hdr, ck) ==
    IF rt # NoToken /\ RefreshTokenOk(rt) /\ HasSessionId(rt) THEN rt
    ELSE IF hdr # NoToken
         THEN (IF UntypedTokenOk(hdr) /\ HasSessionId(hdr) THEN hdr ELSE NoToken)
    ELSE IF ck # NoToken /\ UntypedTokenOk(ck) /\ HasSessionId(ck) THEN ck
    ELSE NoToken

\* logout without the scope check of views.py:290
LogoutBeginOutcome_NoScope(rt, hdr, ck, route, up) ==
    LET c == LogoutCredential(rt, hdr, ck)
    IN  IF c = NoToken THEN Answer(200, "Logged out", TRUE, 0)
        ELSE IF ~up THEN StoreUnavailable
        ELSE IF ~Exists(Claim(c, "sid"))
             THEN Answer(200, "Session already revoked or expired", TRUE, 0)
        ELSE Continue

\* logout that answers an absent session with 401 and keeps the cookies
LogoutBeginOutcome_Strict(rt, hdr, ck, route, up) ==
    LET c == LogoutCredential(rt, hdr, ck)
    IN  IF c = NoToken THEN Answer(200, "Logged out", TRUE, 0)
        ELSE IF ~up THEN StoreUnavailable
        ELSE IF ~Exists(Claim(c, "sid"))
             THEN Answer(401, "Session revoked or expired", FALSE, 0)
        ELSE IF scope_from_path(route) # "None"
                /\ get_session(Claim(c, "sid")).scope # scope_from_path(route)
             THEN Answer(403, "Cannot logout session for a different scope.", FALSE, 0)
        ELSE Continue

\* logout that revokes only for the session's current refresh token
LogoutBeginOutcome_Current(rt, hdr, ck, route, up) ==
    LET c == LogoutCredential(rt, hdr, ck)
    IN  IF c = NoToken THEN Answer(200, "Logged out", TRUE, 0)
        ELSE IF ~up THEN StoreUnavailable
        ELSE IF ~Exists(Claim(c, "sid"))
             THEN Answer(200, "Session already revoked or expired", TRUE, 0)
        ELSE IF scope_from_path(route) # "None"
                /\ get_session(Claim(c, "sid")).scope # scope_from_path(route)
             THEN Answer(403, "Cannot logout session for a different scope.", FALSE, 0)
        ELSE IF ~(c.kind = "refresh" /\ c.jti = get_session(Claim(c, "sid")).refresh_jti)
             THEN Answer(401, "Refresh token is not current", FALSE, 0)
        ELSE Continue

\* views.py:277-292: what logout answers before it revokes
LogoutBeginOutcome(rt, hdr, ck, route, up) ==
    LET c == LogoutCredential(rt, hdr, ck)
    IN  IF c = NoToken THEN Answer(200, "Logged out", TRUE, 0)
        ELSE IF ~up THEN StoreUnavailable
        ELSE IF ~Exists(Claim(c, "sid"))
             THEN Answer(200, "Session already revoked or expired", TRUE, 0)
        ELSE IF scope_from_path(route) # "None"
                /\ get_session(Claim(c, "sid")).scope # scope_from_path(route)
             THEN Answer(403, "Cannot logout session for a different scope.", FALSE, 0)
        ELSE Continue

LogoutBegin(p, rt, hdr, ck, route, up) ==
    LET c == LogoutCredential(rt, hdr, ck)
        a == LogoutBeginOutcome(rt, hdr, ck, route, up)
    IN  /\ resp = NoResp
        /\ Free(p)
        /\ IF a = Continue
           THEN /\ proc' = [proc EXCEPT ![p] =
                              [Idle EXCEPT !.pc = "logout_revoke", !.route = route,
                                           !.tok = c, !.rt = rt, !.sid = Claim(c, "sid")]]
                /\ UNCHANGED resp
           ELSE /\ Respond("logout", "", NoToken, a)
                /\ UNCHANGED proc
        /\ UNCHANGED <<store, tokens, nextSid, nextJti, now, revoked>>
        /\ UNCHANGED <<authz, REFRESH_TOKEN_LIFETIME>>

\* views.py:294-306: revoke, blacklist attempt, 200 with both cookies deleted
LogoutRevoke(p, up, bl) ==
    /\ resp = NoResp
    /\ proc[p].pc = "logout_revoke"
    /\ IF ~up
       THEN /\ Return(p, "logout", StoreUnavailable)
            /\ UNCHANGED <<store, revoked>>
       ELSE /\ store' = CacheDelete(proc[p].sid)
            /\ revoked' = Revoke(proc[p].sid, "logout")
            /\ proc[p].rt # NoToken => TryBlacklist(bl)
            /\ Return(p, "logout", Answer(200, "Logged out", TRUE, 0))
    /\ UNCHANGED <<tokens, nextSid, nextJti, now>>
    /\ UNCHANGED <<authz, REFRESH_TOKEN_LIFETIME>>

(* --------------------------- protected routes -------------------------- *)
\* a permission that lets every scope through
has_permission_Any(scope, path) == TRUE

\* A request path is the sequence of what stands after each of its slashes:
\* "/api/admin/me/" is <<"api", "admin", "me", "">>, "/api/admin" is
\* <<"api", "admin">>.  A prefix such as "/api/admin/" is <<"api", "admin">>
\* followed by one more slash.
PathSegments == {"api", "API", "admin", "Admin", "user", "me", ""}
Paths == UNION {[1..n -> PathSegments] : n \in 0..MaxPathLen}

\* str.lower() on one segment
lower(seg) ==
    IF seg = "API" THEN "api" ELSE IF seg = "Admin" THEN "admin" ELSE seg

\* permissions.py:19   path = (request.path or '').lower()
LowerPath(path) == [i \in 1..Len(path) |-> lower(path[i])]

\* str.startswith, for a prefix that ends with a slash
startswith(path, prefix) ==
    /\ Len(path) > Len(prefix)
    /\ SubSeq(path, 1, Len(prefix)) = prefix

\* request.auth is None: no token was authenticated
NoAuth == "no token"
\* what ScopePermission may find: no token, a token without scope claim, the
\* two scopes, any other value
TokenScopes == {NoAuth, "None", "user", "admin", "other"}

\* a permission that lets every request outside /api/ through
has_permission_Open(scope, path) ==
    LET p == LowerPath(path)
    IN  IF scope = NoAuth THEN FALSE
        ELSE IF startswith(p, <<"api", "admin">>) THEN scope = "admin"
        ELSE IF startswith(p, <<"api", "user">>) THEN scope = "user"
        ELSE IF startswith(p, <<"api">>) THEN scope \in {"user", "admin"}
        ELSE TRUE

\* permissions.py ScopePermission.has_permission
has_permission(scope, path) ==
    LET p == LowerPath(path)
    IN  IF scope = NoAuth THEN FALSE
        ELSE IF startswith(p, <<"api", "admin">>) THEN scope = "admin"
        ELSE IF startswith(p, <<"api", "user">>) THEN scope = "user"
        ELSE IF startswith(p, <<"api">>) THEN scope \in {"user", "admin"}
        ELSE FALSE

\* the path of the view requested under a route prefix
RequestPath(route) ==
    IF route = "/api/admin/" THEN <<"api", "admin", "me", "">>
    ELSE IF route = "/api/user/" THEN <<"api", "user", "me", "">>
    ELSE <<"api", "me", "">>

\* the decision of ScopePermission on the request drawn initially
Authorize ==
    /\ authz.allow = "pending"
    /\ authz' = [authz EXCEPT !.allow =
                    IF has_permission(authz.scope, authz.path) THEN "allow" ELSE "deny"]
    /\ UNCHANGED <<store, tokens, nextSid, nextJti, now, proc, revoked, resp,
                   REFRESH_TOKEN_LIFETIME>>

\* a gate that looks at the access cookie first
GateCredential_CookieFirst(hdr, ck) == IF ck # NoToken THEN ck ELSE hdr

\* authentication.py:8-13: the Authorization header if there is one, else the
\* access cookie
GateCredential(hdr, ck) == IF hdr # NoToken THEN hdr ELSE ck

\* what authenticate gives: None, an AuthenticationFailed, a failed cache
\* call, or (user, validated_token)
GateNone == [result |-> "none", user |-> "", scope |-> "", msg |-> ""]
AuthenticationFailed(msg) == [result |-> "failed", user |-> "", scope |-> "", msg |-> msg]
GateError == [result |-> "error", user |-> "", scope |-> "", msg |-> ""]
Identity(user, scope) == [result |-> "identity", user |-> user, scope |-> scope, msg |-> ""]

\* authentication.py CookieJWTAuthentication.authenticate
authenticate(hdr, ck, up) ==
    LET raw == GateCredential(hdr, ck)
    IN  IF raw = NoToken THEN GateNone
        ELSE IF ~UntypedTokenOk(raw) THEN AuthenticationFailed("Invalid or expired token")
        ELSE IF ~HasSessionId(raw) THEN AuthenticationFailed("Token missing session id")
        ELSE IF ~up THEN GateError
        ELSE IF ~Exists(Claim(raw, "sid"))
             THEN AuthenticationFailed("Session revoked or expired")
        ELSE Identity(Claim(raw, "uid"), Claim(raw, "scope"))

\* a view behind CookieJWTAuthentication, IsAuthenticated and ScopePermission
ProtectedOutcome(hdr, ck, route, up) ==
    LET g == authenticate(hdr, ck, up)
    IN  IF g.result = "none"
        THEN Answer(401, "Authentication credentials were not provided.", FALSE, 0)
        ELSE IF g.result = "failed" THEN Answer(401, g.msg, FALSE, 0)
        ELSE IF g.result = "error" THEN StoreUnavailable
        ELSE IF ~has_permission(g.scope, RequestPath(route))
             THEN Answer(custom_exception_handler(403),
                         "You do not have permission to perform this action.", FALSE, 0)
        ELSE Answer(200, "", FALSE, 0)

\* a read path with sliding expiration: an authenticated read resets the TTL
\* of the session it found
Protected_Touch(hdr, ck, route, up) ==
    LET raw == GateCredential(hdr, ck)
        a == ProtectedOutcome(hdr, ck, route, up)
    IN  /\ resp = NoResp
        /\ Respond("protected", "", NoToken, a)
        /\ store' = IF a.status = 200
                    THEN CacheSet(Claim(raw, "sid"), store[Claim(raw, "sid")],
                                  RefreshLifetime)
                    ELSE store
        /\ UNCHANGED <<tokens, nextSid, nextJti, now, proc, revoked, authz, REFRESH_TOKEN_LIFETIME>>

Protected(hdr, ck, route, up) ==
    /\ resp = NoResp
    /\ Respond("protected", "", NoToken, ProtectedOutcome(hdr, ck, route, up))
    /\ UNCHANGED <<store, tokens, nextSid, nextJti, now, proc, revoked>>
    /\ UNCHANGED <<authz, REFRESH_TOKEN_LIFETIME>>

(* --------------------------- specifications ---------------------------- *)
\* requests as the handlers receive them: a credential in at most one place
BearerPairs == {<<c, NoToken>> : c \in Creds} \cup {<<NoToken, c>> : c \in Creds}
LogoutInputs == {<<c, NoToken, NoToken>> : c \in Creds}
                \cup {<<NoToken, hc[1], hc[2]>> : hc \in BearerPairs}
LoginIdents == Users \cup {"nobody", ""}

\* the steps of the handlers in P, with the Session Store up or down
Serve(P, up) ==
    \/ \E ident \in LoginIdents, pwok \in BOOLEAN, route \in AuthRoutes :
          Login(ident, pwok, route, up)
    \/ \E p \in P, raw \in Creds, route \in AuthRoutes : RotateBegin(p, raw, route, up)
    \/ \E p \in P : RotateCheck(p, up)
    \/ \E p \in P, bl \in BOOLEAN : RotateRevoke(p, up, bl)
    \/ \E p \in P, bl \in BOOLEAN : UpdateGet(p, up, bl)
    \/ \E p \in P, bl \in BOOLEAN : UpdateSet(p, up, bl)
    \/ \E p \in P, thc \in LogoutInputs, route \in AuthRoutes :
          LogoutBegin(p, thc[1], thc[2], thc[3], route, up)
    \/ \E p \in P, bl \in BOOLEAN : LogoutRevoke(p, up, bl)
    \/ \E hc \in BearerPairs, route \in ApiRoutes : Protected(hc[1], hc[2], route, up)

\* concurrent handlers, the clock, and a store that may be down
Next == Serve(Procs, TRUE) \/ Serve(Procs, FALSE) \/ Deliver \/ Tick
Spec == Init /\ [][Next]_vars

\* one handler: requests are handled one after the other; store up
NextSerial == Serve({1}, TRUE) \/ Deliver \/ Tick
SerialSpec == Init /\ [][NextSerial]_vars

\* concurrent handlers within one clock tick; store up
NextRace == Serve(Procs, TRUE) \/ Deliver
RaceSpec == Init /\ [][NextRace]_vars

\* one handler; any call to the store may fail
NextFault == Serve({1}, TRUE) \/ Serve({1}, FALSE) \/ Deliver \/ Tick
FaultSpec == Init /\ [][NextFault]_vars

\* ScopePermission alone, on every path and every token scope
InitAuthorize ==
    /\ InitStore
    /\ authz \in {[path |-> p, scope |-> s, allow |-> "pending"] :
                    p \in Paths, s \in TokenScopes}
    /\ REFRESH_TOKEN_LIFETIME = RefreshLifetime
AuthorizeSpec == InitAuthorize /\ [][Authorize]_vars

\* one handler, store up, refresh tokens that live ShortLifetime seconds
InitShort ==
    /\ InitStore
    /\ authz = NoAuthz
    /\ REFRESH_TOKEN_LIFETIME = ShortLifetime
ShortSpec == InitShort /\ [][NextSerial]_vars

(* ------------------------------ properties ----------------------------- *)
\* refresh tokens handed to a caller by a successful rotate of token n
Successors(n) == {m \in Given : tokens[m].parent = n}

\* C1: of two rotate requests that present the same currently valid refresh
\* token and interleave at the store calls, at most one returns success with a
\* new token pair: no refresh token ever has two successors handed out.
C1_OneRotationWins == \A n \in Given : Cardinality(Successors(n)) <= 1

(* the vocabulary of the properties *)
SessionNotFound == Answer(401, "Session revoked or expired", FALSE, 0)
ReplayDetected == Answer(401, "Refresh token reuse detected. Session revoked.", FALSE, 0)
InvalidToken == Answer(401, "Invalid or expired refresh token", FALSE, 0)
ScopeMismatch == Answer(403, "Invalid scope for this endpoint", FALSE, 0)

AnswerOf(r) == Answer(r.status, r.msg, r.cleared, r.issued)
Refresh(n) == [kind |-> "refresh", jti |-> n]
Access(n) == [kind |-> "access", jti |-> n]
IsToken(raw) == raw.kind \in {"refresh", "access"}
Max(S) == CHOOSE x \in S : \A y \in S : y <= x

\* refresh tokens handed out for session sid
IssuedFor(sid) == {n \in Given : tokens[n].sid = sid}
\* a later refresh token has been handed out for the same session
Superseded(n) == \E m \in IssuedFor(tokens[n].sid) : m > n
\* the route of the session's own scope
OwnRoute(route, sid) == get_session(sid).scope = scope_from_path(route)

C4_RevocationEffective ==
    \A raw \in Creds :
       (IsToken(raw) /\ revoked[Claim(raw, "sid")] # "no") =>
          /\ \A route \in ApiRoutes :
                /\ ProtectedOutcome(raw, NoToken, route, TRUE).status = 401
                /\ ProtectedOutcome(NoToken, raw, route, TRUE).status = 401
          /\ \A route \in AuthRoutes : RotateBeginOutcome(raw, route, TRUE).status = 401

\* the scope the session was created with: the scope of its login token
CreatedScope(sid) ==
    LET n == CHOOSE n \in DOMAIN tokens : tokens[n].sid = sid /\ tokens[n].parent = 0
    IN  tokens[n].scope
RotatePcs == {"rotate_check", "rotate_revoke", "update_get", "update_set"}

\* C5: the scope stored in a session record is the scope the session was
\* created with, whatever rotations, revocations and concurrent writes have
\* happened; and no token issued at login or by a rotation for a session
\* created with scope user is accepted on an admin-only route: the protected
\* views under /api/admin/ do not answer 200 to it, as header or as cookie, and
\* the /api/admin/ refresh endpoint rejects it and never rotates it.
C5_ScopeImmutable ==
    /\ \A sid \in DOMAIN store : store[sid].scope = CreatedScope(sid)
    /\ \A n \in DOMAIN tokens :
          CreatedScope(tokens[n].sid) = "user" =>
             /\ \A raw \in {Refresh(n), Access(n)} :
                   /\ ProtectedOutcome(raw, NoToken, "/api/admin/", TRUE).status # 200
                   /\ ProtectedOutcome(NoToken, raw, "/api/admin/", TRUE).status # 200
                   /\ RotateBeginOutcome(raw, "/api/admin/", TRUE).status \in {401, 403}
    /\ \A p \in Procs :
          (proc[p].pc \in RotatePcs /\ proc[p].route = "/api/admin/")
             => CreatedScope(proc[p].sid) = "admin"
    /\ (resp.op = "rotate" /\ resp.route = "/api/admin/")
          => CreatedScope(tokens[resp.tok.jti].sid) = "admin"

\* a user-scope session has been rotated; the admin routes turn the rotated
\* tokens away while the session exists
C5_Witness ==
    \E n \in Given :
       /\ tokens[n].parent # 0
       /\ CreatedScope(tokens[n].sid) = "user"
       /\ Exists(tokens[n].sid)
       /\ ProtectedOutcome(Access(n), NoToken, "/api/admin/", TRUE).status = 401
       /\ RotateBeginOutcome(Refresh(n), "/api/admin/", TRUE) = ScopeMismatch

\* no record names a refresh token that was not handed to a caller
NotHalfRotated == \A sid \in DOMAIN store : store[sid].refresh_jti \in Given

\* a step of rotate that answers StoreUnavailable ends the handler and writes
\* nothing, and so does every step of rotate that is not its last
FailureWritesNothing ==
    /\ (resp'.op = "rotate" /\ resp'.status = 500) => (store' = store /\ AllIdle')
    /\ \A p \in Procs :
          (proc'[p].pc \in RotatePcs /\ proc'[p] # proc[p]) => store' = store

\* C6: if a Session Store call made during rotate fails, rotate answers with a
\* failure (500) at once, without a retry, and the session record is what it
\* was before the call: no step of rotate before its last one writes, a failed
\* step writes nothing, and no record ever carries the id of a refresh token
\* that was minted but not handed out.
C6_AllOrNothing == []NotHalfRotated /\ [][FailureWritesNothing]_vars

\* the store failed in update_session_jti: the new token is minted, the caller
\* is told 500, and the record still carries the presented token's id
C6_Witness ==
    /\ resp.op = "rotate"
    /\ resp.status = 500
    /\ resp.tok.kind = "refresh"
    /\ \E n \in DOMAIN tokens \ Given : tokens[n].parent = resp.tok.jti
    /\ Exists(tokens[resp.tok.jti].sid)
    /\ store[tokens[resp.tok.jti].sid].refresh_jti = resp.tok.jti

\* rotate called with an unexpired refresh token of an existing session on the
\* route of the other scope answers ScopeMismatch
MismatchAnswered ==
    \A n \in Given, route \in AuthRoutes :
       (Unexpired(Refresh(n)) /\ Exists(tokens[n].sid) /\ ~OwnRoute(route, tokens[n].sid))
          => RotateBeginOutcome(Refresh(n), route, TRUE) = ScopeMismatch

\* the step that answers ScopeMismatch changes nothing but the answer
MismatchChangesNothing ==
    (resp'.op = "rotate" /\ AnswerOf(resp') = ScopeMismatch)
       => /\ store' = store
          /\ proc' = proc
          /\ tokens' = tokens
          /\ revoked' = revoked

LogoutMismatch == Answer(403, "Cannot logout session for a different scope.", FALSE, 0)
LoggedOut == Answer(200, "Logged out", TRUE, 0)
AlreadyLoggedOut == Answer(200, "Session already revoked or expired", TRUE, 0)
\* every way of presenting tokens to logout: refresh cookie, header, access cookie
Presented == Creds \X Creds \X Creds
\* the session logout resolves from the presented tokens (0: none)
Resolved(t) ==
    LET c == LogoutCredential(t[1], t[2], t[3])
    IN  IF c = NoToken THEN 0 ELSE Claim(c, "sid")

\* logout that resolves an existing session on the route of the other scope
\* answers ScopeMismatch
LogoutMismatchAnswered ==
    resp = NoResp =>
       \A t \in LogoutInputs, route \in AuthRoutes :
          (Resolved(t) # 0 /\ Exists(Resolved(t)) /\ ~OwnRoute(route, Resolved(t)))
             => LogoutBeginOutcome(t[1], t[2], t[3], route, TRUE) = LogoutMismatch

\* the step that answers so revokes nothing and starts no revocation
LogoutMismatchChangesNothing ==
    (resp'.op = "logout" /\ AnswerOf(resp') = LogoutMismatch)
       => /\ store' = store
          /\ proc' = proc
          /\ revoked' = revoked

\* C8: logout on a route whose scope differs from the scope of the session it
\* resolves is rejected with ScopeMismatch (403) and does not revoke: the
\* session record still exists, unchanged, after the call.
C8_LogoutMismatchKeepsSession ==
    []LogoutMismatchAnswered /\ [][LogoutMismatchChangesNothing]_vars

\* logout has just answered ScopeMismatch while a session exists whose tokens
\* are answered so on the other route
C8_Witness ==
    /\ resp.op = "logout"
    /\ AnswerOf(resp) = LogoutMismatch
    /\ \E n \in Given, route \in AuthRoutes :
          /\ Exists(tokens[n].sid)
          /\ LogoutBeginOutcome(NoToken, Access(n), NoToken, route, TRUE) = LogoutMismatch

FirstLogout ==
    (resp.op = "logout" /\ resp.tok # NoToken) =>
       /\ AnswerOf(resp) = LoggedOut
       /\ ~Exists(tokens[resp.tok.jti].sid)
       /\ revoked[tokens[resp.tok.jti].sid] = "logout"

\* the same tokens again: whatever tokens of a logged-out session are
\* presented, on whatever route, the answer is 200 with both cookies deleted
SecondLogout ==
    resp = NoResp =>
       \A t \in Presented, route \in AuthRoutes :
          (\A i \in 1..3 : IsToken(t[i]) => revoked[Claim(t[i], "sid")] = "logout")
             => LogoutBeginOutcome(t[1], t[2], t[3], route, TRUE)
                   \in {LoggedOut, AlreadyLoggedOut}

\* a logout answered at its first checks writes nothing
SecondLogoutChangesNothing ==
    (resp'.op = "logout" /\ resp'.tok = NoToken)
       => (store' = store /\ revoked' = revoked /\ proc' = proc)

\* cache.delete of an absent key leaves the store as it is
DeleteAbsentIsNoError == \A sid \in Sids \ DOMAIN store : CacheDelete(sid) = store

MissingToken == Answer(401, "Refresh token not provided", FALSE, 0)
MalformedToken == Answer(401, "Malformed refresh token (no session)", FALSE, 0)

\* the answer the fixed order of checks asks for: token, session_id, session,
\* scope, and only then the comparison
RotateOrder(raw, route) ==
    IF raw = NoToken THEN MissingToken
    ELSE IF raw = BadToken \/ raw.kind = "access" THEN InvalidToken
    ELSE IF raw.kind = "refresh" /\ ~Unexpired(raw) THEN InvalidToken
    ELSE IF raw = BareToken THEN MalformedToken
    ELSE IF ~Exists(tokens[raw.jti].sid) THEN SessionNotFound
    ELSE IF ~OwnRoute(route, tokens[raw.jti].sid) THEN ScopeMismatch
    ELSE Continue

\* a rotate request was answered at one of its first four checks
RotateRejectedEarly ==
    /\ resp = NoResp
    /\ resp'.op = "rotate"
    /\ resp'.tok = NoToken

\* C11: rotate checks in a fixed order -- a missing, invalid or expired
\* refresh token is answered 401, then a token without session_id 401
\* (MalformedToken), then an absent session 401 (SessionNotFound), then a scope
\* mismatch 403, and only a token that passed all four reaches the comparison
\* with current_refresh_id; a rejection at one of the four checks creates,
\* modifies and deletes no Session Store record.
C11_RotateCheckOrder ==
    /\ [](\A raw \in Creds, route \in AuthRoutes :
             /\ RotateBeginOutcome(raw, route, TRUE) = RotateOrder(raw, route)
             /\ RotateOrder(raw, route).status \in {0, 401, 403}
             /\ RotateOrder(raw, route).status = 403 <=>
                   RotateOrder(raw, route) = ScopeMismatch)
    /\ [](\A p \in Procs :
             proc[p].pc = "rotate_check" =>
                /\ RotateOrder(proc[p].tok, proc[p].route) = Continue
                /\ proc[p].sid = tokens[proc[p].tok.jti].sid)
    /\ [][RotateRejectedEarly =>
             /\ AnswerOf(resp') \in {MissingToken, InvalidToken, MalformedToken,
                                     SessionNotFound, ScopeMismatch}
             /\ store' = store
             /\ revoked' = revoked
             /\ UNCHANGED <<tokens, nextSid, nextJti, proc>>]_vars

\* a token without session_id was presented while a session was live: it was
\* answered MalformedToken
C11_Witness ==
    /\ resp.op = "rotate"
    /\ AnswerOf(resp) = MalformedToken
    /\ DOMAIN store # {}

\* the Authentication Gate returns an Identity for the credential
ValidIdentity(raw) ==
    /\ IsToken(raw)
    /\ Unexpired(raw)
    /\ Exists(tokens[raw.jti].sid)

\* C12: a protected endpoint answers 401 when the request carries no identity
\* or an invalid one, and answers 403 when the identity is valid but the Scope
\* Authorizer denies the route (a user-scope token on /api/admin/me/).
C12_ProtectedStatus ==
    \A hdr \in Creds, ck \in Creds, route \in ApiRoutes :
       LET raw == GateCredential(hdr, ck)
           a == ProtectedOutcome(hdr, ck, route, TRUE)
       IN  IF ~ValidIdentity(raw) THEN a.status = 401
           ELSE ~has_permission(tokens[raw.jti].scope, RequestPath(route)) =>
                   a.status = 403

\* the 401 answers rotate gives, in this state, to the credentials that fail
\* its token and session checks
RotateFailures ==
    {a \in {RotateBeginOutcome(raw, route, TRUE) :
               raw \in Creds \ {NoToken}, route \in AuthRoutes} : a.status = 401}

\* the 401 answers the Authentication Gate gives, in this state, to the
\* credentials it fails
GateFailures ==
    {a \in {ProtectedOutcome(raw, NoToken, "/api/", TRUE) : raw \in Creds \ {NoToken}} :
        a.status = 401}

\* C13: the caller receives the same status and message for every failed
\* token or session validation, whether the token was malformed, expired,
\* bound to a revoked or absent session, or replayed: requests that differ only
\* in the reason of failure get the same response.
C13_NoOracleLeakage ==
    /\ \A a, b \in RotateFailures : a = b
    /\ \A a, b \in GateFailures : a = b
    /\ (resp.op = "rotate" /\ resp.status = 401) =>
          \A a \in RotateFailures : AnswerOf(resp) = a

\* the decision table: admin prefix with admin scope, user prefix with user
\* scope, any other /api/ path with either scope
DecisionTable(path, scope) ==
    \/ startswith(path, <<"api", "admin">>) /\ scope = "admin"
    \/ startswith(path, <<"api", "user">>) /\ scope = "user"
    \/ /\ startswith(path, <<"api">>)
       /\ ~startswith(path, <<"api", "admin">>)
       /\ ~startswith(path, <<"api", "user">>)
       /\ scope \in {"user", "admin"}

ProtectedAnswered ==
    /\ resp = NoResp
    /\ resp'.op = "protected"

\* the step completes a login, a rotation or a revocation (logout or replay)
LoginRotateOrRevoke ==
    \/ resp'.op = "login" /\ resp'.status = 200
    \/ resp'.op = "rotate" /\ resp'.status = 200
    \/ resp'.op = "rotate" /\ AnswerOf(resp') = ReplayDetected
    \/ resp'.op = "logout" /\ AnswerOf(resp') = LoggedOut

\* the cache dropped the records whose timeout passed, and did nothing else
ExpiryOnly ==
    /\ now' = now + 1
    /\ \A s \in DOMAIN store :
          IF store[s].expire > now' THEN s \in DOMAIN store' /\ store'[s] = store[s]
          ELSE s \notin DOMAIN store'
    /\ DOMAIN store' \subseteq DOMAIN store

\* C15: the authenticated read path never mutates the Session Store -- for
\* every outcome of the Authentication Gate (no identity, failure, identity
\* returned) every session record and its expiry are the same before and after
\* the call; the store is changed only by login, rotate and revoke (and by
\* the passing of a record's TTL).
C15_ReadPathNeverMutates ==
    [][/\ ProtectedAnswered => store' = store /\ revoked' = revoked
       /\ store' # store => LoginRotateOrRevoke \/ ExpiryOnly]_vars

\* the Gate returned an identity for a live session and the view answered 200
C15_Witness ==
    /\ resp.op = "protected"
    /\ resp.status = 200
    /\ DOMAIN store # {}
    /\ now > 0

LoginAnswered ==
    /\ resp = NoResp
    /\ resp'.op = "login"

\* session ids in use or used before
UsedSids ==
    DOMAIN store \cup {tokens[n].sid : n \in DOMAIN tokens}
    \cup {s \in Sids : revoked[s] # "no"}

\* the step stored exactly one new record, under a fresh session id, for the
\* token pair it returned
OneNewSession ==
    \E sid \in DOMAIN store' \ UsedSids :
       /\ DOMAIN store' = DOMAIN store \cup {sid}
       /\ \A s \in DOMAIN store : store'[s] = store[s]
       /\ resp'.issued \notin DOMAIN tokens
       /\ DOMAIN tokens' = DOMAIN tokens \cup {resp'.issued}
       /\ \A n \in DOMAIN tokens : tokens'[n] = tokens[n]
       /\ store'[sid].refresh_jti = resp'.issued
       /\ store'[sid].scope = scope_from_path(resp'.route)
       /\ tokens'[resp'.issued].sid = sid
       /\ tokens'[resp'.issued].scope = store'[sid].scope
       /\ tokens'[resp'.issued].uid = store'[sid].user_id
       /\ tokens'[resp'.issued].given

\* C17: login creates a session exactly when it succeeds -- a login with a
\* known identifier, the correct password, a verified account and a permitted
\* scope returns 200, stores one new session record under a fresh session_id
\* whose current_refresh_id is the id of the returned refresh token, and both
\* returned tokens carry that session_id and the session's scope; a login
\* rejected for bad credentials (400), an unverified account (403) or a
\* disallowed scope creates no session record.
C17_LoginCreatesSession ==
    /\ [](\A ident \in LoginIdents, pwok \in BOOLEAN, route \in AuthRoutes :
             LET a == LoginOutcome(ident, pwok, route, TRUE)
                 permitted == ~(is_user(ident) /\ LoginScope(route) = "admin")
             IN  /\ a.status = 200 <=>
                       ident \in Users /\ pwok /\ is_verified(ident) /\ permitted
                 /\ (ident \notin Users \/ ~pwok) => a.status = 400
                 /\ (ident \in Users /\ pwok /\ ~is_verified(ident)) => a.status = 403
                 /\ a.status \in {200, 400, 401, 403})
    /\ [][LoginAnswered =>
             IF resp'.status = 200 THEN OneNewSession
             ELSE store' = store /\ tokens' = tokens /\ resp'.issued = 0]_vars

\* a second login succeeded while the session of the first was live: two
\* records under different session ids
C17_Witness ==
    /\ resp.op = "login"
    /\ resp.status = 200
    /\ Cardinality(DOMAIN store) = 2
    /\ \E s \in DOMAIN store : store[s].refresh_jti = resp.issued

\* refresh token n was handed out, its session exists, and the session's
\* current refresh id is another one
NotCurrent(n) ==
    /\ n \in Given
    /\ Exists(tokens[n].sid)
    /\ store[tokens[n].sid].refresh_jti # n

\* rotate lets no refresh token past its comparison that is not the current one
RotateRefusesNotCurrent ==
    \A p \in Procs :
       (proc[p].pc \in {"update_get", "update_set"} /\ Exists(proc[p].sid)) =>
          store[proc[p].sid].refresh_jti = proc[p].tok.jti

\* the Authentication Gate returns no identity for a refresh token that is not
\* the current one, in the header or in the cookie
GateRefusesNotCurrent ==
    \A n \in Given :
       NotCurrent(n) =>
          /\ authenticate(Refresh(n), NoToken, TRUE).result # "identity"
          /\ authenticate(NoToken, Refresh(n), TRUE).result # "identity"

\* C18: a refresh token whose unique id is not the session's
\* current_refresh_id is invalid as a credential everywhere -- once superseded
\* by a rotation it is accepted neither by rotate nor by the Authentication
\* Gate as a bearer credential, even while its session exists and the token is
\* unexpired.
C18_SupersededInvalidEverywhere ==
    /\ RotateRefusesNotCurrent
    /\ GateRefusesNotCurrent

\* the store expiry of session sid is the expiry of refresh token n counted
\* in whole seconds from the time of the write: never later, and less than one
\* second earlier
TracksToken(st, sid, n, exp) ==
    /\ sid \in DOMAIN st
    /\ st[sid].refresh_jti = n
    /\ st[sid].expire <= exp * TicksPerSecond
    /\ exp * TicksPerSecond - st[sid].expire < TicksPerSecond

\* a login or a rotation returned success
LoginOrRotateSucceeded ==
    /\ resp = NoResp
    /\ resp'.op \in {"login", "rotate"}
    /\ resp'.status = 200

\* C19: session expiry tracks the current refresh token -- immediately after
\* a successful login or rotation the record's store expiry, now plus a TTL of
\* whole seconds, is the expiry of the refresh token whose id is
\* current_refresh_id (the whole seconds left until it, from the time of the
\* write); rotation replaces the previous expiry with that of the new token.
C19_ExpiryTracksRefresh ==
    /\ [][LoginOrRotateSucceeded =>
             LET n == resp'.issued
                 sid == tokens'[n].sid
             IN  /\ TracksToken(store', sid, n, tokens'[n].exp)
                 /\ store'[sid].expire = now + Ttl(tokens'[n].exp, now) * TicksPerSecond
                 /\ Ttl(tokens'[n].exp, now) * TicksPerSecond
                       = ((tokens'[n].exp * TicksPerSecond - now) \div TicksPerSecond)
                            * TicksPerSecond]_vars
    /\ [](AllIdle =>
             \A sid \in DOMAIN store :
                LET n == store[sid].refresh_jti
                IN  n \in DOMAIN tokens /\ TracksToken(store, sid, n, tokens[n].exp))

\* a rotation succeeded and the record now expires with the new token, later
\* than the token it replaced
C19_Witness ==
    /\ resp.op = "rotate"
    /\ resp.status = 200
    /\ tokens[resp.issued].exp > tokens[resp.tok.jti].exp
    /\ TracksToken(store, tokens[resp.issued].sid, resp.issued, tokens[resp.issued].exp)
    /\ store[tokens[resp.issued].sid].expire > tokens[resp.tok.jti].exp * TicksPerSecond

\* refresh tokens minted for session sid
MintedFor(sid) == {n \in DOMAIN tokens : tokens[n].sid = sid}

\* the clock has passed the expiry of the last refresh token of session sid
NaturallyExpired(sid) ==
    /\ MintedFor(sid) # {}
    /\ now >= tokens[Max(MintedFor(sid))].exp * TicksPerSecond

\* every rotate and every authenticated request with a token of sid fails
EveryRequestFails(sid) ==
    \A n \in MintedFor(sid) :
       /\ \A route \in AuthRoutes :
             RotateBeginOutcome(Refresh(n), route, TRUE).status = 401
       /\ \A raw \in {Refresh(n), Access(n)} :
             /\ authenticate(raw, NoToken, TRUE).result = "failed"
             /\ authenticate(NoToken, raw, TRUE).result = "failed"
             /\ \A route \in ApiRoutes :
                   ProtectedOutcome(raw, NoToken, route, TRUE).status = 401

\* C20: natural expiry ends the session -- once the clock has passed the
\* expiry of the session's current refresh token (the session not having been
\* rotated again) the record is absent from the store, without any explicit
\* delete if none was made before, and from then on every rotate and every
\* authenticated request for that session fails.
C20_NaturalExpiry ==
    \A sid \in Sids :
       NaturallyExpired(sid) =>
          /\ ~Exists(sid)
          /\ revoked[sid] \in {"ttl", "logout", "replay"}
          /\ EveryRequestFails(sid)

\* a session that nobody logged out or replayed is gone because its TTL
\* passed, its last refresh token has expired, and a request was refused
C20_Witness ==
    /\ \E sid \in Sids :
          /\ NaturallyExpired(sid)
          /\ revoked[sid] = "ttl"
          /\ ~Exists(sid)
    /\ resp.op \in {"rotate", "protected"}
    /\ resp.status = 401

\* a rotation returned 200 with a new token pair
RotateSucceeded ==
    /\ resp = NoResp
    /\ resp'.op = "rotate"
    /\ resp'.status = 200

\* C21: a successful rotation changes only current_refresh_id and the TTL of
\* the session record -- the record stays under the same session_id key with
\* the same user_id and scope, no other record changes, and the new access and
\* refresh tokens carry the session_id of the presented token.
C21_RotationFrame ==
    [][RotateSucceeded =>
          LET old == resp'.tok.jti
              new == resp'.issued
              sid == tokens[old].sid
          IN  /\ DOMAIN store' = DOMAIN store
              /\ sid \in DOMAIN store
              /\ \A s \in DOMAIN store \ {sid} : store'[s] = store[s]
              /\ store'[sid].user_id = store[sid].user_id
              /\ store'[sid].scope = store[sid].scope
              /\ store[sid].refresh_jti = old
              /\ store'[sid].refresh_jti = new
              /\ new # old
              /\ tokens'[new].sid = sid
              /\ tokens'[new].given]_vars

\* a rotation succeeded later than the login: the record has the new jti and a
\* later expiry, and the other session's record is in the store as well
C21_Witness ==
    /\ resp.op = "rotate"
    /\ resp.status = 200
    /\ Cardinality(DOMAIN store) = 2
    /\ LET sid == tokens[resp.issued].sid
       IN  /\ Exists(sid)
           /\ store[sid].refresh_jti = resp.issued
           /\ store[sid].expire > tokens[resp.tok.jti].exp * TicksPerSecond

\* the record of session T is not the same before and after the step
RecordChanged(T) ==
    \/ (T \in DOMAIN store) # (T \in DOMAIN store')
    \/ T \in DOMAIN store /\ T \in DOMAIN store' /\ store'[T] # store[T]

\* the step belongs to an operation on session T: the login that creates it,
\* or a step of a handler that holds a token of T
StepOn(T) ==
    \/ resp'.op = "login" /\ T = nextSid
    \/ \E p \in Procs :
          /\ proc[p].pc # "idle"
          /\ proc'[p] # proc[p]
          /\ proc[p].sid = T
          /\ tokens[proc[p].tok.jti].sid = T

\* session T can be used: its current refresh token rotates on the route of
\* its scope and its access token passes the Authentication Gate
Usable(T) ==
    /\ Exists(T)
    /\ store[T].refresh_jti \in Given
    /\ \E route \in AuthRoutes :
          RotateBeginOutcome(Refresh(store[T].refresh_jti), route, TRUE) = Continue
    /\ authenticate(Access(store[T].refresh_jti), NoToken, TRUE).result = "identity"

\* the step detected a replay on a session and revoked it
ReplayRevoked ==
    /\ resp = NoResp
    /\ resp'.op = "rotate"
    /\ AnswerOf(resp') = ReplayDetected

\* C22: sessions are independent -- login, rotate, replay-triggered
\* revocation and logout performed with tokens of session S never create,
\* modify or delete the record of another session T, another session of the
\* same user included; a replay detected on S leaves the other sessions usable.
C22_SessionsIndependent ==
    [][/\ \A T \in Sids : RecordChanged(T) => StepOn(T)
       /\ ReplayRevoked =>
             \A T \in Sids \ {tokens[resp'.tok.jti].sid} :
                Usable(T) => Usable(T)']_vars

\* a replay was detected on one session while another session of the same
\* user is live and usable
C22_Witness ==
    /\ resp.op = "rotate"
    /\ AnswerOf(resp) = ReplayDetected
    /\ \E T \in DOMAIN store :
          /\ T # tokens[resp.tok.jti].sid
          /\ store[T].user_id = tokens[resp.tok.jti].uid
          /\ Usable(T)

C24_SuccessMeansCommitted ==
    (resp.op = "rotate" /\ resp.status = 200) =>
       /\ Exists(tokens[resp.issued].sid)
       /\ store[tokens[resp.issued].sid].refresh_jti = resp.issued

\* C25: a revoked session never comes back -- once revoke_session has deleted
\* the record of a session_id (logout or replay detection), no step of a rotate
\* call already in flight writes a record under that session_id again: the
\* record stays absent after the revocation in every interleaving.
C25_RevokedStaysAbsent ==
    \A sid \in Sids : revoked[sid] \in {"logout", "replay"} => ~Exists(sid)

\* C26: login never hands out tokens without a session -- every login that
\* returns 200 with an access and a refresh token has stored a session record
\* for the session_id those tokens carry, also when the computed TTL (refresh
\* expiry minus now, truncated to whole seconds) is zero or negative.
C26_LoginStoresSession ==
    (resp.op = "login" /\ resp.status = 200 /\ resp.issued # 0) =>
       /\ Exists(tokens[resp.issued].sid)
       /\ store[tokens[resp.issued].sid].refresh_jti = resp.issued

\* C27: token scope always equals session scope -- in every reachable state
\* each access or refresh token issued by login or rotate carries a scope claim
\* equal to the scope stored in the session record named by its session_id,
\* although rotate copies the scope from the presented token and not from the
\* record.
C27_TokenScopeIsSessionScope ==
    \A n \in DOMAIN tokens :
       /\ tokens[n].scope \in {"user", "admin"}
       /\ tokens[n].scope = CreatedScope(tokens[n].sid)
       /\ Exists(tokens[n].sid) => tokens[n].scope = store[tokens[n].sid].scope

\* a rotation handed out a token for a live session while a session of the
\* other scope is live as well
C27_Witness ==
    /\ resp.op = "rotate"
    /\ resp.status = 200
    /\ Exists(tokens[resp.issued].sid)
    /\ tokens[resp.issued].scope = store[tokens[resp.issued].sid].scope
    /\ \E T \in DOMAIN store : store[T].scope # tokens[resp.issued].scope

\* accounts whose is_user flag is set
FlaggedUsers == {u \in Users : is_user(u)}

\* the answer of a login refused because of the requested scope
ScopeRefused == Answer(custom_exception_handler(401), "Unauthorized", FALSE, 0)

\* C28: an account flagged is_user can never hold an admin-scope session --
\* a login by such an account on a route that does not select user scope is
\* rejected without creating a session, so in every reachable state no session
\* record with scope admin has the user_id of an is_user account.
C28_NoAdminSessionForUser ==
    /\ [](\A sid \in DOMAIN store :
             store[sid].scope = "admin" => store[sid].user_id \notin FlaggedUsers)
    /\ [](\A u \in FlaggedUsers, route \in AuthRoutes, up \in BOOLEAN :
             LoginScope(route) # "user" =>
                LoginOutcome(u, TRUE, route, up) = ScopeRefused)
    /\ [][(LoginAnswered /\ AnswerOf(resp') = ScopeRefused) =>
             store' = store /\ tokens' = tokens /\ nextSid' = nextSid]_vars

\* a flagged account has just been refused on the admin route while it holds a
\* user-scope session and another account holds an admin-scope session
C28_Witness ==
    /\ resp.op = "login"
    /\ AnswerOf(resp) = ScopeRefused
    /\ \E S, T \in DOMAIN store :
          /\ store[S].user_id \in FlaggedUsers /\ store[S].scope = "user"
          /\ store[T].user_id \notin FlaggedUsers /\ store[T].scope = "admin"

\* C29: the Authentication Gate grants identity only to access-kind tokens --
\* a refresh token (current or not) presented as the bearer credential of a
\* protected request, in the header or in the access cookie, is rejected with
\* AuthenticationFailed, so the shorter expiry of the access token cannot be
\* bypassed with the longer-lived refresh token.
C29_GateOnlyAccessTokens ==
    \A n \in Given :
       /\ authenticate(Refresh(n), NoToken, TRUE).result = "failed"
       /\ authenticate(NoToken, Refresh(n), TRUE).result = "failed"

\* the access token of a pair has expired and the gate still grants identity
\* to the refresh token of that pair
C29_ExpiryBypassed ==
    \E n \in Given :
       /\ ~Unexpired(Access(n))
       /\ authenticate(Access(n), NoToken, TRUE) =
             AuthenticationFailed("Invalid or expired token")
       /\ authenticate(Refresh(n), NoToken, TRUE).result = "identity"
       /\ \E route \in ApiRoutes :
             ProtectedOutcome(Refresh(n), NoToken, route, TRUE).status = 200

\* the refresh cookie verifies and carries a session_id
RefreshResolves(rt) == rt # NoToken /\ RefreshTokenOk(rt) /\ HasSessionId(rt)

\* logout takes its session_id from the refresh cookie when that resolves, and
\* otherwise from the access token presented in the header or the cookie
LogoutResolution ==
    /\ \A rt \in Creds, hc \in BearerPairs :
          RefreshResolves(rt) => LogoutCredential(rt, hc[1], hc[2]) = rt
    /\ \A rt \in Creds, n \in Given :
          (~RefreshResolves(rt) /\ Unexpired(Access(n))) =>
             /\ LogoutCredential(rt, Access(n), NoToken) = Access(n)
             /\ LogoutCredential(rt, NoToken, Access(n)) = Access(n)

\* any unexpired token of an existing session, current or not, refresh or
\* access, gets logout as far as the revocation on the route of the session
LogoutIgnoresJti ==
    \A n \in Given, route \in AuthRoutes :
       (Exists(tokens[n].sid) /\ OwnRoute(route, tokens[n].sid)) =>
          /\ Unexpired(Refresh(n)) =>
                LogoutBeginOutcome(Refresh(n), NoToken, NoToken, route, TRUE) = Continue
          /\ Unexpired(Access(n)) =>
                /\ LogoutBeginOutcome(NoToken, Access(n), NoToken, route, TRUE) = Continue
                /\ LogoutBeginOutcome(NoToken, NoToken, Access(n), route, TRUE) = Continue

\* the revoking step of logout, with the Session Store up
LogoutRevoked(p) ==
    /\ proc[p].pc = "logout_revoke"
    /\ proc'[p].pc = "idle"
    /\ AnswerOf(resp') = LoggedOut

C30_AccessAlone ==
    /\ resp.op = "logout"
    /\ AnswerOf(resp) = LoggedOut
    /\ resp.tok.kind = "access"
    /\ ~Exists(tokens[resp.tok.jti].sid)
    /\ revoked[tokens[resp.tok.jti].sid] = "logout"

====
